---- MODULE Spec2Model ----
(***************************************************************************)
(* A model of the t-digest crate: Centroid and TDigest (src/src/lib.rs)    *)
(* and the amortizing wrapper OnlineTdigest (src/src/online.rs).           *)
(*                                                                         *)
(* f64 values are modelled as exact rationals [n, d] in lowest terms with  *)
(* d > 0; the NaN that marks "no min/max yet" is the record with d = 0.    *)
(* Rounding of f64 arithmetic is outside the model.                        *)
(***************************************************************************)
EXTENDS Integers, Sequences, FiniteSets, TLC

(***************************************************************************)
(* f64 as exact rationals                                                  *)
(***************************************************************************)
Abs(x) == IF x < 0 THEN -x ELSE x

RECURSIVE GCD(_, _)
GCD(a, b) == IF b = 0 THEN a ELSE GCD(b, a % b)

NaN == [n |-> 0, d |-> 0]

IsNaN(x) == x.d = 0

\* the f64 n/d, d # 0, in lowest terms
Frac(n, d) ==
    LET s == IF d < 0 THEN -1 ELSE 1
        g == GCD(Abs(n), Abs(d))
    IN  [n |-> (s * n) \div g, d |-> (s * d) \div g]

F(i) == [n |-> i, d |-> 1]

FAdd(x, y) == Frac(x.n * y.d + y.n * x.d, x.d * y.d)

FSub(x, y) == Frac(x.n * y.d - y.n * x.d, x.d * y.d)

FMul(x, y) == Frac(x.n * y.n, x.d * y.d)

FDiv(x, y) == Frac(x.n * y.d, x.d * y.n)

\* f64 comparisons: false when an operand is NaN
FLt(x, y) == ~IsNaN(x) /\ ~IsNaN(y) /\ x.n * y.d < y.n * x.d

FLe(x, y) == ~IsNaN(x) /\ ~IsNaN(y) /\ x.n * y.d <= y.n * x.d

FGt(x, y) == FLt(y, x)

FGe(x, y) == FLe(y, x)

\* OrderedFloat's total order: NaN is greater than every number
OrdLe(x, y) == IF IsNaN(y) THEN TRUE ELSE IF IsNaN(x) THEN FALSE ELSE FLe(x, y)

OrdMin(x, y) == IF OrdLe(x, y) THEN x ELSE y

OrdMax(x, y) == IF OrdLe(x, y) THEN y ELSE x

(***************************************************************************)
(* Centroid                                                                *)
(***************************************************************************)
Centroid(mean, weight) == [mean |-> mean, weight |-> weight]

\* Centroid::add: the centroid after the call and the value returned
CentroidAddDropWeight(c, sum, weight) ==
    LET sum_ == FAdd(sum, FAdd(c.weight, c.mean))
    IN  [c |-> Centroid(FDiv(sum_, c.weight), c.weight), ret |-> sum_]

CentroidAdd(c, sum, weight) ==
    LET weight_ == c.weight
        mean_ == c.mean
        sum_ == FAdd(sum, FAdd(weight_, mean_))
        new_weight == FAdd(weight_, weight)
    IN  [c |-> Centroid(FDiv(sum_, new_weight), new_weight), ret |-> sum_]

(***************************************************************************)
(* TDigest                                                                 *)
(***************************************************************************)
DefaultMaxSize == 100

new_with_size(max_size) ==
    [centroids |-> << >>, max_size |-> max_size, sum |-> F(0), count |-> F(0),
     max |-> NaN, min |-> NaN]

DefaultTDigest == new_with_size(DefaultMaxSize)

\* TDigest::new: "unimplemented" is the panic of the unimplemented!() branch,
\* which returns no digest (value is then a placeholder)
TDigestNew(centroids, sum, count, max, min, max_size) ==
    IF Len(centroids) <= max_size
    THEN [outcome |-> "ok",
          value |-> [centroids |-> centroids, max_size |-> max_size, sum |-> sum,
                     count |-> count, max |-> max, min |-> min]]
    ELSE [outcome |-> "unimplemented", value |-> new_with_size(0)]

k_to_q_off_by_one(k, d) ==
    LET k_div_d == FDiv(k, FAdd(d, F(1)))
    IN  IF FGe(k_div_d, Frac(1, 2))
        THEN LET base == FSub(F(1), k_div_d)
             IN  FSub(F(1), FMul(F(2), FMul(base, base)))
        ELSE FMul(F(2), FMul(k_div_d, k_div_d))

k_to_q(k, d) ==
    LET k_div_d == FDiv(k, d)
    IN  IF FGe(k_div_d, Frac(1, 2))
        THEN LET base == FSub(F(1), k_div_d)
             IN  FSub(F(1), FMul(F(2), FMul(base, base)))
        ELSE FMul(F(2), FMul(k_div_d, k_div_d))

clamp(v, lo, hi) == IF FGt(v, hi) THEN hi ELSE IF FLt(v, lo) THEN lo ELSE v

\* merge_unsorted's sort of the values (OrderedFloat order, stable)
RECURSIVE InsertValue(_, _)
InsertValue(s, x) ==
    IF s = << >> THEN << x >>
    ELSE IF OrdLe(s[Len(s)], x) THEN Append(s, x)
    ELSE Append(InsertValue(SubSeq(s, 1, Len(s) - 1), x), s[Len(s)])

RECURSIVE SortValues(_)
SortValues(values) ==
    IF values = << >> THEN << >>
    ELSE InsertValue(SortValues(SubSeq(values, 1, Len(values) - 1)), values[Len(values)])

\* Ord for Centroid compares the means
CentroidLe(a, b) == OrdLe(a.mean, b.mean)

\* compressed.sort(): a stable sort by mean
RECURSIVE InsertCentroid(_, _)
InsertCentroid(s, x) ==
    IF s = << >> THEN << x >>
    ELSE IF CentroidLe(s[Len(s)], x) THEN Append(s, x)
    ELSE Append(InsertCentroid(SubSeq(s, 1, Len(s) - 1), x), s[Len(s)])

RECURSIVE SortCentroids(_)
SortCentroids(compressed) ==
    IF compressed = << >> THEN << >>
    ELSE InsertCentroid(SortCentroids(SubSeq(compressed, 1, Len(compressed) - 1)),
                        compressed[Len(compressed)])

\* result.min and result.max of merge_sorted
MergedMinBatchOnly(self, sorted_values) == sorted_values[1]

MergedMin(self, sorted_values) ==
    LET maybe_min == sorted_values[1]
    IN  IF FGt(self.count, F(0)) THEN OrdMin(self.min, maybe_min) ELSE maybe_min

MergedMax(self, sorted_values) ==
    LET maybe_max == sorted_values[Len(sorted_values)]
    IN  IF FGt(self.count, F(0)) THEN OrdMax(self.max, maybe_max) ELSE maybe_max

\* the choice between the next centroid and the next value, in the loop of
\* merge_sorted: TRUE takes the centroid at ic, FALSE the value at iv
TakeCentroid(self, sorted_values, ic, iv) ==
    /\ ic <= Len(self.centroids)
    /\ \/ iv > Len(sorted_values)
       \/ FLt(self.centroids[ic].mean, sorted_values[iv])

\* the while loop of merge_sorted, from the loop state st, to the final state
RECURSIVE MergeLoop(_, _, _, _)
MergeLoop(self, sorted_values, count, st) ==
    IF st.ic > Len(self.centroids) /\ st.iv > Len(sorted_values)
    THEN st
    ELSE LET tc == TakeCentroid(self, sorted_values, st.ic, st.iv)
             next == IF tc THEN self.centroids[st.ic]
                     ELSE Centroid(sorted_values[st.iv], F(1))
             ic2 == IF tc THEN st.ic + 1 ELSE st.ic
             iv2 == IF tc THEN st.iv ELSE st.iv + 1
             next_sum == FMul(next.mean, next.weight)
             wsf == FAdd(st.weight_so_far, next.weight)
         IN  IF FLe(wsf, st.q_limit_times_count)
             THEN MergeLoop(self, sorted_values, count,
                    [st EXCEPT !.ic = ic2, !.iv = iv2, !.weight_so_far = wsf,
                       !.sums_to_merge = FAdd(st.sums_to_merge, next_sum),
                       !.weights_to_merge = FAdd(st.weights_to_merge, next.weight)])
             ELSE LET a == CentroidAdd(st.curr, st.sums_to_merge, st.weights_to_merge)
                  IN  MergeLoop(self, sorted_values, count,
                        [st EXCEPT !.ic = ic2, !.iv = iv2, !.weight_so_far = wsf,
                           !.sum = FAdd(st.sum, a.ret),
                           !.sums_to_merge = F(0),
                           !.weights_to_merge = F(0),
                           !.compressed = Append(st.compressed, a.c),
                           !.q_limit_times_count =
                               FMul(k_to_q(st.k_limit, F(self.max_size)), count),
                           !.k_limit = FAdd(st.k_limit, F(1)),
                           !.curr = next])

merge_sorted(self, sorted_values) ==
    IF sorted_values = << >> THEN self
    ELSE
    LET count == FAdd(self.count, F(Len(sorted_values)))
        \* curr before the loop: the first centroid if its mean is below the
        \* first value, the first value otherwise
        first_c == /\ Len(self.centroids) > 0
                   /\ FLt(self.centroids[1].mean, sorted_values[1])
        curr0 == IF first_c THEN self.centroids[1]
                 ELSE Centroid(sorted_values[1], F(1))
        st0 == [ic |-> IF first_c THEN 2 ELSE 1,
                iv |-> IF first_c THEN 1 ELSE 2,
                curr |-> curr0,
                weight_so_far |-> curr0.weight,
                sums_to_merge |-> F(0),
                weights_to_merge |-> F(0),
                k_limit |-> F(2),
                q_limit_times_count |-> FMul(k_to_q(F(1), F(self.max_size)), count),
                compressed |-> << >>,
                sum |-> F(0)]
        fin == MergeLoop(self, sorted_values, count, st0)
        a == CentroidAdd(fin.curr, fin.sums_to_merge, fin.weights_to_merge)
    IN  [centroids |-> SortCentroids(Append(fin.compressed, a.c)),
         max_size |-> self.max_size,
         sum |-> FAdd(fin.sum, a.ret),
         count |-> count,
         max |-> MergedMax(self, sorted_values),
         min |-> MergedMin(self, sorted_values)]

merge_unsorted(self, unsorted_values) ==
    merge_sorted(self, SortValues(unsorted_values))

\* the backward scan of estimate_quantile (q > 0.5) from index k (1-based)
\* with t the weight at and above k: the pos and t it ends with
RECURSIVE ScanBackward(_, _, _, _)
ScanBackward(centroids, rank, k, t) ==
    IF k < 1 THEN [pos |-> 1, t |-> t]
    ELSE LET t2 == FSub(t, centroids[k].weight)
         IN  IF FGe(rank, t2) THEN [pos |-> k, t |-> t2]
             ELSE ScanBackward(centroids, rank, k - 1, t2)

\* the forward scan of estimate_quantile (q <= 0.5) from index k (1-based)
\* with t the weight below k
RECURSIVE ScanForward(_, _, _, _)
ScanForward(centroids, rank, k, t) ==
    IF k > Len(centroids) THEN [pos |-> Len(centroids), t |-> t]
    ELSE IF FLt(rank, FAdd(t, centroids[k].weight)) THEN [pos |-> k, t |-> t]
    ELSE ScanForward(centroids, rank, k + 1, FAdd(t, centroids[k].weight))

estimate_quantile(self, q) ==
    IF self.centroids = << >> THEN F(0)
    ELSE IF FGt(q, Frac(1, 2)) /\ FGe(q, F(1)) THEN self.max
    ELSE IF ~FGt(q, Frac(1, 2)) /\ FLe(q, F(0)) THEN self.min
    ELSE
    LET cs == self.centroids
        n == Len(cs)
        rank == FMul(q, self.count)
        sc == IF FGt(q, Frac(1, 2))
              THEN ScanBackward(cs, rank, n, self.count)
              ELSE ScanForward(cs, rank, 1, F(0))
        pos == sc.pos
        t == sc.t
        delta == IF n > 1
                 THEN IF pos = 1 THEN FSub(cs[pos + 1].mean, cs[pos].mean)
                      ELSE IF pos = n THEN FSub(cs[pos].mean, cs[pos - 1].mean)
                      ELSE FDiv(FSub(cs[pos + 1].mean, cs[pos - 1].mean), F(2))
                 ELSE F(0)
        min == IF n > 1 /\ pos > 1 THEN cs[pos - 1].mean ELSE self.min
        max == IF n > 1 /\ pos < n THEN cs[pos + 1].mean ELSE self.max
        value == FAdd(cs[pos].mean,
                      FMul(FSub(FDiv(FSub(rank, t), cs[pos].weight), Frac(1, 2)), delta))
    IN  clamp(value, min, max)

(***************************************************************************)
(* OnlineTdigest: the state behind the mutex and the helpers of online.rs  *)
(***************************************************************************)
\* the length of State::amortized_observations: 32 in online.rs, scaled down
\* (State::i is a u8 and stays within 0 .. 32, so its width plays no part)
BufferLen == 2

DefaultState ==
    [current |-> DefaultTDigest,
     amortized_observations |-> [k \in 0 .. BufferLen - 1 |-> F(0)],
     i |-> 0]

flush_state_skip_one(state) ==
    IF state.i < 2 THEN state
    ELSE [state EXCEPT
            !.current = merge_unsorted(state.current,
                            [k \in 1 .. state.i |-> state.amortized_observations[k - 1]]),
            !.i = 0]

flush_state(state) ==
    IF state.i < 1 THEN state
    ELSE [state EXCEPT
            !.current = merge_unsorted(state.current,
                            [k \in 1 .. state.i |-> state.amortized_observations[k - 1]]),
            !.i = 0]

\* state.current = Default::default() of reset and get_snapshot_and_reset
ResetCurrentKeep(state) == state

ResetCurrent(state) == [state EXCEPT !.current = DefaultTDigest]

\* state.i += 1 and the flush of a full buffer, in record_observation
BumpAndFlush(state) ==
    LET s2 == [state EXCEPT !.i = state.i + 1]
    IN  IF s2.i = BufferLen THEN flush_state(s2) ELSE s2

\* record_observation as one step (the _mut path and the tests)
record_observation(state, observation) ==
    BumpAndFlush([state EXCEPT !.amortized_observations[state.i] = observation])

\* Mutex::lock succeeds when no thread holds the mutex (0)
MutexAvailableAlways(holder) == TRUE

MutexAvailable(holder) == holder = 0

(***************************************************************************)
(* Bounds and inputs                                                       *)
(***************************************************************************)
\* largest max_size a digest is created with (new_with_size)
MaxMaxSize == 3

\* longest batch passed to merge_sorted / merge_unsorted
MaxBatch == 2

\* most values merged into one digest
MaxCount == 4

\* quantiles queried are k / QDen, k in 0 .. QDen
QDen == 4

\* threads sharing one OnlineTdigest
NThreads == 2

\* most observe / observe_mut calls in a run of the wrapper
MaxObserve == 5

Values == {F(0), F(1), F(5)}

ObserveValues == {F(0), F(5)}

Batches == UNION {[1 .. n -> Values] : n \in 0 .. MaxBatch}

Quantiles == {Frac(k, QDen) : k \in 0 .. QDen}

Threads == 1 .. NThreads

IsAscending(s) == \A k \in 1 .. Len(s) - 1 : FLe(s[k], s[k + 1])

\* inputs of Centroid::add
AddMeans == {F(0), F(2), F(3), Frac(1, 2), Frac(7, 2)}

AddWeights == {F(1), F(2), F(3)}

AddSums == {F(0), F(1), F(4), F(6)}

AddExtraWeights == {F(0), F(1), F(2)}

\* inputs of TDigest::new
NewCentroids == {Centroid(F(0), F(1)), Centroid(F(5), F(2))}

NewCentroidLists == UNION {[1 .. n -> NewCentroids] : n \in 0 .. 3}

NewMaxSizes == 0 .. 2

NewScalars == {F(0), F(2)}

(***************************************************************************)
(* State                                                                   *)
(***************************************************************************)
VARIABLES
    env,        \* the client run: "digest", "online", "add" or "new"
    digest,     \* "digest": the TDigest value the client holds
    merged,     \* the values merged (observed) since the digest was empty, sorted
    est,        \* "digest": the last estimate_quantile call and its result
    call,       \* "add", "new": the arguments of the last call
    ret,        \* "add", "new": what the last call returned
    state,      \* "online": State behind the mutex
    holder,     \* "online": the thread holding the mutex, 0 when unlocked
    pc,         \* "online": where each thread is in its call
    local,      \* "online": the locals of each thread's call
    returned,   \* "online": the last digest a get or reset returned
    hasReset,   \* "online": a reset has cleared current
    lockedObs,  \* "online": observes that took the lock since the last reset
    resetTotal, \* "online": sum of count() over the digests resets returned
    totalCalls  \* "online": observe calls made

vars == << env, digest, merged, est, call, ret, state, holder, pc, local,
           returned, hasReset, lockedObs, resetTotal, totalCalls >>

digestVars == << digest, est >>

pureVars == << call, ret >>

onlineVars == << state, holder, pc, local, returned, hasReset, lockedObs,
                 resetTotal, totalCalls >>

NoLocal == [observation |-> F(0), index |-> 0, snapshot |-> << >>,
            values |-> << >>, expected |-> 0, afterReset |-> FALSE]

InitRest ==
    /\ merged = << >>
    /\ est = << >>
    /\ call = << >>
    /\ ret = << >>
    /\ state = DefaultState
    /\ holder = 0
    /\ pc = [t \in Threads |-> "idle"]
    /\ local = [t \in Threads |-> NoLocal]
    /\ returned = << >>
    /\ hasReset = FALSE
    /\ lockedObs = 0
    /\ resetTotal = F(0)
    /\ totalCalls = 0

InitDigest ==
    /\ env = "digest"
    /\ \E max_size \in 1 .. MaxMaxSize : digest = new_with_size(max_size)
    /\ InitRest

InitOnline ==
    /\ env = "online"
    /\ digest = DefaultTDigest
    /\ InitRest

InitAdd ==
    /\ env = "add"
    /\ digest = DefaultTDigest
    /\ InitRest

InitNew ==
    /\ env = "new"
    /\ digest = DefaultTDigest
    /\ InitRest

Init == InitDigest \/ InitOnline

(***************************************************************************)
(* A client of TDigest                                                     *)
(***************************************************************************)
MergeSorted(sorted_values) ==
    /\ env = "digest"
    /\ IsAscending(sorted_values)
    /\ Len(merged) + Len(sorted_values) <= MaxCount
    /\ digest' = merge_sorted(digest, sorted_values)
    /\ merged' = SortValues(merged \o sorted_values)
    /\ est' = << >>
    /\ UNCHANGED << env, pureVars, onlineVars >>

MergeUnsorted(unsorted_values) ==
    /\ env = "digest"
    /\ Len(merged) + Len(unsorted_values) <= MaxCount
    /\ digest' = merge_unsorted(digest, unsorted_values)
    /\ merged' = SortValues(merged \o unsorted_values)
    /\ est' = << >>
    /\ UNCHANGED << env, pureVars, onlineVars >>

EstimateQuantile(q) ==
    /\ env = "digest"
    /\ est' = << [q |-> q, value |-> estimate_quantile(digest, q)] >>
    /\ UNCHANGED << env, digest, merged, pureVars, onlineVars >>

NextDigest ==
    \/ \E b \in Batches : MergeSorted(b)
    \/ \E b \in Batches : MergeUnsorted(b)
    \/ \E q \in Quantiles : EstimateQuantile(q)

(***************************************************************************)
(* Calls of Centroid::add and TDigest::new                                 *)
(***************************************************************************)
AddCall(c, sum, weight) ==
    /\ env = "add"
    /\ call' = << [c |-> c, sum |-> sum, weight |-> weight] >>
    /\ ret' = << CentroidAdd(c, sum, weight) >>
    /\ UNCHANGED << env, digest, merged, est, onlineVars >>

NextAdd ==
    \E m \in AddMeans, w \in AddWeights, sum \in AddSums, weight \in AddExtraWeights :
        AddCall(Centroid(m, w), sum, weight)

NewCall(centroids, sum, count, max, min, max_size) ==
    /\ env = "new"
    /\ call' = << [centroids |-> centroids, sum |-> sum, count |-> count,
                   max |-> max, min |-> min, max_size |-> max_size] >>
    /\ ret' = << TDigestNew(centroids, sum, count, max, min, max_size) >>
    /\ UNCHANGED << env, digest, merged, est, onlineVars >>

NextNew ==
    \E centroids \in NewCentroidLists, sum \in NewScalars, count \in NewScalars,
       max \in NewScalars, min \in NewScalars, max_size \in NewMaxSizes :
        NewCall(centroids, sum, count, max, min, max_size)

(***************************************************************************)
(* Clients of OnlineTdigest: threads calling observe, get and reset, and   *)
(* the sole owner calling observe_mut, get_mut and reset_mut               *)
(***************************************************************************)
Snapshot(kind, d, values, expected, afterReset) ==
    [kind |-> kind, digest |-> d, values |-> values, expected |-> expected,
     afterReset |-> afterReset]

otherOnline == << env, digest, est, pureVars >>

\* observe: self.state.lock()
ObserveLock(t, observation) ==
    /\ env = "online"
    /\ pc[t] = "idle"
    /\ totalCalls < MaxObserve
    /\ MutexAvailable(holder)
    /\ holder' = t
    /\ pc' = [pc EXCEPT ![t] = "record_store"]
    /\ local' = [local EXCEPT ![t] = [NoLocal EXCEPT !.observation = observation]]
    /\ lockedObs' = lockedObs + 1
    /\ totalCalls' = totalCalls + 1
    /\ UNCHANGED << otherOnline, merged, state, returned, hasReset, resetTotal >>

\* record_observation: index = state.i; amortized_observations[index] = observation
RecordStore(t) ==
    /\ env = "online"
    /\ pc[t] = "record_store"
    /\ state' = [state EXCEPT !.amortized_observations[state.i] = local[t].observation]
    /\ local' = [local EXCEPT ![t].index = state.i]
    /\ pc' = [pc EXCEPT ![t] = "record_bump"]
    /\ UNCHANGED << otherOnline, merged, holder, returned, hasReset, lockedObs,
                    resetTotal, totalCalls >>

\* record_observation: state.i += 1; flush_state when the buffer is full
RecordBump(t) ==
    /\ env = "online"
    /\ pc[t] = "record_bump"
    /\ state' = BumpAndFlush(state)
    /\ merged' = InsertValue(merged, local[t].observation)
    /\ pc' = [pc EXCEPT ![t] = "unlock"]
    /\ UNCHANGED << otherOnline, holder, local, returned, hasReset, lockedObs,
                    resetTotal, totalCalls >>

\* get: self.state.lock()
GetLock(t) ==
    /\ env = "online"
    /\ pc[t] = "idle"
    /\ MutexAvailable(holder)
    /\ holder' = t
    /\ pc' = [pc EXCEPT ![t] = "get_snapshot"]
    /\ local' = [local EXCEPT ![t] =
                    [NoLocal EXCEPT !.expected = lockedObs, !.afterReset = hasReset]]
    /\ UNCHANGED << otherOnline, merged, state, returned, hasReset, lockedObs,
                    resetTotal, totalCalls >>

\* get: get_snapshot(&mut state)
GetSnapshot(t) ==
    /\ env = "online"
    /\ pc[t] = "get_snapshot"
    /\ state' = flush_state(state)
    /\ local' = [local EXCEPT ![t].snapshot = << "get", state'.current >>,
                              ![t].values = merged]
    /\ pc' = [pc EXCEPT ![t] = "unlock"]
    /\ UNCHANGED << otherOnline, merged, holder, returned, hasReset, lockedObs,
                    resetTotal, totalCalls >>

\* reset: self.state.lock()
ResetLock(t) ==
    /\ env = "online"
    /\ pc[t] = "idle"
    /\ MutexAvailable(holder)
    /\ holder' = t
    /\ pc' = [pc EXCEPT ![t] = "reset_snapshot"]
    /\ local' = [local EXCEPT ![t] =
                    [NoLocal EXCEPT !.expected = lockedObs, !.afterReset = hasReset]]
    /\ UNCHANGED << otherOnline, merged, state, returned, hasReset, lockedObs,
                    resetTotal, totalCalls >>

\* reset: let snapshot = get_snapshot(&mut state)
ResetSnapshot(t) ==
    /\ env = "online"
    /\ pc[t] = "reset_snapshot"
    /\ state' = flush_state(state)
    /\ local' = [local EXCEPT ![t].snapshot = << "reset", state'.current >>,
                              ![t].values = merged]
    /\ pc' = [pc EXCEPT ![t] = "reset_clear"]
    /\ UNCHANGED << otherOnline, merged, holder, returned, hasReset, lockedObs,
                    resetTotal, totalCalls >>

\* reset: state.current = Default::default()
ResetClear(t) ==
    /\ env = "online"
    /\ pc[t] = "reset_clear"
    /\ state' = ResetCurrent(state)
    /\ merged' = << >>
    /\ hasReset' = TRUE
    /\ lockedObs' = 0
    /\ resetTotal' = FAdd(resetTotal, local[t].snapshot[2].count)
    /\ pc' = [pc EXCEPT ![t] = "unlock"]
    /\ UNCHANGED << otherOnline, holder, local, returned, totalCalls >>

\* the guard is dropped and the call returns
Unlock(t) ==
    /\ env = "online"
    /\ pc[t] = "unlock"
    /\ holder' = 0
    /\ pc' = [pc EXCEPT ![t] = "idle"]
    /\ returned' = IF local[t].snapshot = << >> THEN returned
                   ELSE << Snapshot(local[t].snapshot[1], local[t].snapshot[2],
                                    local[t].values, local[t].expected,
                                    local[t].afterReset) >>
    /\ local' = [local EXCEPT ![t] = NoLocal]
    /\ UNCHANGED << otherOnline, merged, state, hasReset, lockedObs, resetTotal,
                    totalCalls >>

\* &mut self: no thread is inside a call on the wrapper
Exclusive == holder = 0 /\ \A t \in Threads : pc[t] = "idle"

ObserveMut(observation) ==
    /\ env = "online"
    /\ Exclusive
    /\ totalCalls < MaxObserve
    /\ state' = record_observation(state, observation)
    /\ merged' = InsertValue(merged, observation)
    /\ lockedObs' = lockedObs + 1
    /\ totalCalls' = totalCalls + 1
    /\ UNCHANGED << otherOnline, holder, pc, local, returned, hasReset, resetTotal >>

GetMut ==
    /\ env = "online"
    /\ Exclusive
    /\ state' = flush_state(state)
    /\ returned' = << Snapshot("get", state'.current, merged, lockedObs, hasReset) >>
    /\ UNCHANGED << otherOnline, merged, holder, pc, local, hasReset, lockedObs,
                    resetTotal, totalCalls >>

\* reset_mut: get_snapshot_and_reset
ResetMut ==
    /\ env = "online"
    /\ Exclusive
    /\ LET flushed == flush_state(state)
       IN  /\ state' = ResetCurrent(flushed)
           /\ returned' = << Snapshot("reset", flushed.current, merged, lockedObs,
                                      hasReset) >>
           /\ resetTotal' = FAdd(resetTotal, flushed.current.count)
    /\ merged' = << >>
    /\ hasReset' = TRUE
    /\ lockedObs' = 0
    /\ UNCHANGED << otherOnline, holder, pc, local, totalCalls >>

NextOnline ==
    \/ \E t \in Threads, v \in ObserveValues : ObserveLock(t, v)
    \/ \E t \in Threads : RecordStore(t)
    \/ \E t \in Threads : RecordBump(t)
    \/ \E t \in Threads : GetLock(t)
    \/ \E t \in Threads : GetSnapshot(t)
    \/ \E t \in Threads : ResetLock(t)
    \/ \E t \in Threads : ResetSnapshot(t)
    \/ \E t \in Threads : ResetClear(t)
    \/ \E t \in Threads : Unlock(t)
    \/ \E v \in ObserveValues : ObserveMut(v)
    \/ GetMut
    \/ ResetMut

(***************************************************************************)
(* Specifications                                                          *)
(***************************************************************************)
Next == NextDigest \/ NextOnline

Spec == Init /\ [][Next]_vars

SpecDigest == InitDigest /\ [][NextDigest]_vars

SpecOnline == InitOnline /\ [][NextOnline]_vars

SpecAdd == InitAdd /\ [][NextAdd]_vars

SpecNew == InitNew /\ [][NextNew]_vars

(***************************************************************************)
(* Properties                                                              *)
(***************************************************************************)
RECURSIVE WeightSum(_)
WeightSum(centroids) ==
    IF centroids = << >> THEN F(0)
    ELSE FAdd(WeightSum(Tail(centroids)), Head(centroids).weight)

\* C1: the digest a get or reset returns has count() equal to the number of
\* observe calls completed since the last reset (or since creation).
C1_CountIsObserved ==
    (env = "online" /\ returned # << >>) =>
        returned[1].digest.count = F(Len(returned[1].values))

\* a reset returned a digest holding more observations than the buffer does:
\* some were flushed when the buffer filled, the rest by the reset
C1_Witness ==
    /\ env = "online"
    /\ returned # << >>
    /\ returned[1].kind = "reset"
    /\ FGt(returned[1].digest.count, F(BufferLen))
    /\ Len(returned[1].values) > BufferLen

\* C2: under the mutex each get or reset returns a digest whose count is the
\* number of observes that took the lock before it since the last reset, and
\* once every call has returned the counts of the reset snapshots, of current
\* and of the buffer add up to the number of observe calls.
C2_Linearizable ==
    env = "online" =>
        /\ \A t \in Threads :
              local[t].snapshot # << >> =>
                  local[t].snapshot[2].count = F(local[t].expected)
        /\ returned # << >> => returned[1].digest.count = F(returned[1].expected)
        /\ Exclusive =>
              FAdd(resetTotal, FAdd(state.current.count, F(state.i))) = F(totalCalls)

\* a thread's reset holds the lock with a snapshot of several observations
\* while a reset went before it and every allowed observe has been made
C2_Witness ==
    /\ env = "online"
    /\ \E t \in Threads :
          /\ pc[t] = "reset_clear"
          /\ holder = t
          /\ local[t].afterReset
          /\ FGe(local[t].snapshot[2].count, F(1))
    /\ FGe(resetTotal, F(1))
    /\ totalCalls = MaxObserve

\* C3: a reset that follows a reset with no observe in between returns an
\* empty digest, and after a reset, until the next observe, the wrapper holds
\* a fresh empty digest and an empty buffer.
C3_ResetEmpties ==
    env = "online" =>
        /\ (/\ returned # << >>
            /\ returned[1].kind = "reset"
            /\ returned[1].afterReset
            /\ returned[1].expected = 0)
           => (/\ returned[1].digest.count = F(0)
               /\ returned[1].digest.centroids = << >>)
        /\ (hasReset /\ lockedObs = 0) =>
              (state.current = DefaultTDigest /\ state.i = 0)

\* a second reset returned after observations that the first reset took
C3_Witness ==
    /\ env = "online"
    /\ returned # << >>
    /\ returned[1].kind = "reset"
    /\ returned[1].afterReset
    /\ returned[1].expected = 0
    /\ FGe(resetTotal, F(2))

\* C4: min() and max() of a digest built by merges, and of a digest the
\* wrapper returns, are the smallest and the largest value merged since the
\* digest was empty.
C4_MinMaxTrue ==
    /\ (env = "digest" /\ merged # << >>) =>
          (digest.min = merged[1] /\ digest.max = merged[Len(merged)])
    /\ (env = "online" /\ returned # << >> /\ returned[1].values # << >>) =>
          /\ returned[1].digest.min = returned[1].values[1]
          /\ returned[1].digest.max = returned[1].values[Len(returned[1].values)]

\* a compressed digest of MaxCount values with distinct min and max
C4_Witness ==
    /\ env = "digest"
    /\ Len(merged) = MaxCount
    /\ Len(digest.centroids) < Len(merged)
    /\ digest.min # digest.max
    /\ digest.min = merged[1]

\* C5: the centroids of a digest built by merges are in ascending order of
\* mean and their weights add up to count().
C5_SortedAndWeights ==
    env = "digest" =>
        /\ \A k \in 1 .. Len(digest.centroids) - 1 :
              FLe(digest.centroids[k].mean, digest.centroids[k + 1].mean)
        /\ WeightSum(digest.centroids) = digest.count

\* a digest of several centroids, one of them holding several values
C5_Witness ==
    /\ env = "digest"
    /\ Len(digest.centroids) >= 2
    /\ \E k \in 1 .. Len(digest.centroids) : FGt(digest.centroids[k].weight, F(1))

\* C6: a digest returned by a merge has at most max_size centroids.
C6_SizeBound ==
    env = "digest" => Len(digest.centroids) <= digest.max_size

\* more values than max_size were merged and the digest is full
C6_Witness ==
    /\ env = "digest"
    /\ digest.max_size >= 2
    /\ Len(merged) > digest.max_size
    /\ Len(digest.centroids) = digest.max_size

\* C7: estimate_quantile is non-decreasing in q on a digest built by merges.
C7_QuantileMonotone ==
    env = "digest" =>
        \A q1 \in Quantiles, q2 \in Quantiles :
            FLe(q1, q2) =>
                FLe(estimate_quantile(digest, q1), estimate_quantile(digest, q2))

\* C8: TDigest::new with more centroids than max_size fails with
\* InvalidArgument, and otherwise stores its arguments unchanged.
C8_NewInvalidArgument ==
    (env = "new" /\ ret # << >>) =>
        IF Len(call[1].centroids) > call[1].max_size
        THEN ret[1].outcome = "InvalidArgument"
        ELSE /\ ret[1].outcome = "ok"
             /\ ret[1].value = call[1]

\* C9: Centroid::add returns total_sum = sum + w * m, sets the weight to
\* w + weight and the mean to total_sum / (w + weight).
C9_AddWeightedMean ==
    (env = "add" /\ ret # << >>) =>
        LET c == call[1].c
            total_sum == FAdd(call[1].sum, FMul(c.weight, c.mean))
            new_weight == FAdd(c.weight, call[1].weight)
        IN  /\ ret[1].ret = total_sum
            /\ ret[1].c.weight = new_weight
            /\ ret[1].c.mean = FDiv(total_sum, new_weight)

\* C10: on a non-empty digest built by merges estimate_quantile(q) lies
\* between min() and max() for every q in [0, 1].
C10_EstimateWithinMinMax ==
    (env = "digest" /\ digest.centroids # << >>) =>
        \A q \in Quantiles :
            /\ FLe(digest.min, estimate_quantile(digest, q))
            /\ FLe(estimate_quantile(digest, q), digest.max)

====
